---- MODULE Spec2Model ----
(***************************************************************************)
(* The third-person camera rig of src/src/player_control/camera.rs.        *)
(*                                                                         *)
(* Fixed-point units.  Lengths are in thousandths of a world unit          *)
(* (5.0 = 5000), angles in 1/1400 of a full turn (PI = 700, so TAU/10 and  *)
(* TAU/7 are the integers 140 and 200), times in milliseconds and the      *)
(* smoothing factors in thousandths (1.0 = 1000).                          *)
(*                                                                         *)
(* Two specifications project the same six systems of the Playing state:   *)
(*   Spec       positions: follow, line of sight, smoothing, commit; the   *)
(*              view offset stays on a coordinate axis, where              *)
(*              try_normalize and look_at are exact on the lattice;        *)
(*   SpecOrbit  orientation: the angle between the eye's forward direction *)
(*              and the up axis under pitch input, and the window cursor.  *)
(***************************************************************************)
EXTENDS Integers, Sequences, FiniteSets, TLC

VARIABLES
    camera,                 \* the MainCamera component: current, new, up
    transform,              \* the camera entity's rendered Transform
    added,                  \* Added<MainCamera> still matches the entity
    done,                   \* systems that have completed in this frame
    frame,                  \* index of the running frame
    time_delta,             \* time.delta_seconds() read by update_camera_transform
    ray_hit,                \* what RapierContext::cast_ray answered
    line_of_sight_result,   \* the local of update_camera_transform
    orbit,                  \* forward-to-up angle of current.eye and new.eye
    cursor,                 \* primary window: cursor grab mode and visibility
    frozen,                 \* the ActionsFrozen resource is present
    key_escape              \* key.just_pressed(KeyCode::Escape)

vars == <<camera, transform, added, done, frame, time_delta, ray_hit,
          line_of_sight_result, orbit, cursor, frozen, key_escape>>

posVars == <<camera, transform, time_delta, ray_hit, line_of_sight_result, frame>>
orbitVars == <<orbit, cursor, frozen, key_escape>>

---------------------------------------------------------------------------
(* Constants of the program. *)

MAX_DISTANCE == 5000
MIN_DISTANCE_TO_OBJECTS == 10
PI == 700
TAU == 1400
MOUSE_SENSITIVITY_INV == 100
EPSILON_SQUARED == 10

(* Bounds of the model. *)
MaxFrames == 3

---------------------------------------------------------------------------
(* Option<T>, Vec3, Vec2. *)

None == <<>>
Some(x) == <<x>>

Abs(x) == IF x < 0 THEN -x ELSE x
Min(a, b) == IF a < b THEN a ELSE b
Max(a, b) == IF a > b THEN a ELSE b
Clamp(x, lo, hi) == Max(lo, Min(x, hi))

ZERO == <<0, 0, 0>>
Y == <<0, 1, 0>>
Z == <<0, 0, 1>>

Add(a, b) == <<a[1] + b[1], a[2] + b[2], a[3] + b[3]>>
Sub(a, b) == <<a[1] - b[1], a[2] - b[2], a[3] - b[3]>>
Mul(a, k) == <<a[1] * k, a[2] * k, a[3] * k>>
\* x * num / den, the whole part of x multiplied first to stay within 32 bits
MulDiv(x, num, den) == (x \div den) * num + ((x % den) * num) \div den
\* a * (num / den), the factor being a fixed-point number
MulFixed(a, num, den) == <<MulDiv(a[1], num, den), MulDiv(a[2], num, den), MulDiv(a[3], num, den)>>
Dot(a, b) == a[1] * b[1] + a[2] * b[2] + a[3] * b[3]
Cross(a, b) == <<a[2] * b[3] - a[3] * b[2], a[3] * b[1] - a[1] * b[3], a[1] * b[2] - a[2] * b[1]>>
LengthSquared(a) == Dot(a, a)
Sign(x) == IF x > 0 THEN 1 ELSE IF x < 0 THEN -1 ELSE 0

\* Vec3::try_normalize, exact for the vectors of the lattice that lie on a
\* coordinate axis; the result is a unit vector (components in whole units).
TryNormalize(v) ==
    CASE v = ZERO -> None
      [] v # ZERO /\ Cardinality({i \in 1..3 : v[i] # 0}) = 1 ->
            Some(<<Sign(v[1]), Sign(v[2]), Sign(v[3])>>)

\* util::trait_extension (Vec3Ext, Vec2Ext): a vector shorter than the jitter
\* epsilon counts as zero.
IsApproxZero(v) == LengthSquared(v) < EPSILON_SQUARED
CollapseApproxZero(v) == IF IsApproxZero(v) THEN ZERO ELSE v
\* the same epsilon for a Vec2 of angles: 1e-5 rad^2 is 0.497 angle units^2
IsApproxZero2(v) == (v[1] * v[1] + v[2] * v[2]) * 1000 < 497

---------------------------------------------------------------------------
(* Transform and Quat.  In Spec every orientation is a rotation about the  *)
(* up axis Y, kept as its angle modulo TAU; angle 0 is the identity, whose *)
(* forward direction is -Z.                                                *)

DefaultTransform == [translation |-> ZERO, rotation |-> 0]
DefaultCameraPosition == [eye |-> DefaultTransform, target |-> ZERO]
\* impl Default for MainCamera
DefaultMainCamera ==
    [current |-> DefaultCameraPosition, new |-> DefaultCameraPosition, up |-> Y]

\* Transform::forward of a rotation about Y
Forward(rotation) ==
    CASE rotation = 0 -> <<0, 0, -1>>
      [] rotation = 350 -> <<-1, 0, 0>>
      [] rotation = 700 -> <<0, 0, 1>>
      [] rotation = 1050 -> <<1, 0, 0>>

\* Transform::look_at(target, up) for up = Y and a horizontal axis direction:
\* the rotation whose forward is normalize(target - translation)
LookAt(translation, target, up) ==
    LET forward == TryNormalize(Sub(target, translation))[1]
    IN  CASE up = Y /\ forward = <<0, 0, -1>> -> 0
          [] up = Y /\ forward = <<-1, 0, 0>> -> 350
          [] up = Y /\ forward = <<0, 0, 1>> -> 700
          [] up = Y /\ forward = <<1, 0, 0>> -> 1050

\* Vec3::angle_between for unit vectors of the lattice
AngleBetween(a, b) ==
    CASE Dot(a, b) = 1 -> 0
      [] Dot(a, b) = 0 -> PI \div 2
      [] Dot(a, b) = -1 -> PI

\* rotation * v for rotation = yaw about up composed with pitch about the
\* eye's local_x; on the lattice for a zero pitch (any axis) and quarter
\* turns of yaw
RotateVec(yaw, pitch, v) ==
    CASE pitch = 0 /\ yaw % TAU = 0 -> v
      [] pitch = 0 /\ yaw % TAU = 350 -> <<v[3], v[2], -v[1]>>
      [] pitch = 0 /\ yaw % TAU = 700 -> <<-v[1], v[2], -v[3]>>
      [] pitch = 0 /\ yaw % TAU = 1050 -> <<-v[3], v[2], v[1]>>

\* Transform::rotate_around(point, rotation)
RotateAround(eye, point, yaw, pitch) ==
    [translation |-> Add(point, RotateVec(yaw, pitch, Sub(eye.translation, point))),
     rotation |-> (yaw + eye.rotation) % TAU]

\* Quat::slerp(end, s) between rotations about Y, s in thousandths: the angle
\* moves along the shorter arc and extrapolates past the end when s > 1
Slerp(start, end, s) ==
    LET d == ((end - start + PI) % TAU) - PI
    IN  (start + (d * s) \div 1000) % TAU

---------------------------------------------------------------------------
(* CameraPlugin::build: the systems of SystemSet::on_update(Playing) and   *)
(* their ordering labels.  A system starts once every system it is ordered *)
(* after has completed in the frame; each runs once per frame.             *)

Systems ==
    {"init_camera_eye", "set_camera_focus", "follow_target",
     "handle_camera_controls", "update_camera_transform", "cursor_grab_system"}
CameraSystems == Systems \ {"cursor_grab_system"}

\* After with update_camera_transform's .after("handle_camera_controls") left out
AfterWithoutUpdateOrder(s) ==
    CASE s = "follow_target" -> {"init_camera_eye", "set_camera_focus"}
      [] s = "handle_camera_controls" -> {"follow_target"}
      [] OTHER -> {}

\* the systems that `s` is ordered after (.after(label) of s, .before(s) of others)
After(s) ==
    CASE s = "follow_target" -> {"init_camera_eye", "set_camera_focus"}
      [] s = "handle_camera_controls" -> {"follow_target"}
      [] s = "update_camera_transform" -> {"handle_camera_controls"}
      [] OTHER -> {}

RunSystem(s) ==
    /\ s \notin done
    /\ After(s) \subseteq done
    /\ done' = done \cup {s}

---------------------------------------------------------------------------
(* Inputs of the positional projection. *)

\* where the camera entity is spawned: 5.0, 6.0 and 0.004 behind the origin
SpawnTranslations == {<<0, 0, 5000>>, <<0, 0, 6000>>, <<0, 0, 4>>}
\* how far the followed player moves in a frame: not at all, by (1,0,0),
\* or by less than the jitter epsilon
PlayerMoves == {ZERO, <<1000, 0, 0>>, <<0, 0, 2>>}
\* actions.camera_movement: absent, no movement, a half turn of yaw
CameraMovements == {None, Some(<<0, 0>>), Some(<<80000, 0>>)}
\* time.delta_seconds(): 25 and 5 frames per second
DeltaSeconds == {40, 200}
\* cast_ray: no hit, or the time of impact of the nearest fixed collider
RayHits == {None, Some(2), Some(2000)}

---------------------------------------------------------------------------
(* The systems, on positions. *)

\* MainCamera::set_target
SetTarget(cam, target) == [cam EXCEPT !.new.target = target]

\* camera.current.eye = *transform, for the entities Added<MainCamera> matches
InitCameraEye ==
    /\ RunSystem("init_camera_eye")
    /\ camera' = IF added THEN [camera EXCEPT !.current.eye = transform] ELSE camera
    /\ added' = FALSE
    /\ UNCHANGED <<transform, frame, time_delta, ray_hit, line_of_sight_result>>
    /\ UNCHANGED orbitVars

\* camera::focus::set_camera_focus: the target follows the player
SetCameraFocus ==
    /\ RunSystem("set_camera_focus")
    /\ \E move \in PlayerMoves :
            camera' = SetTarget(camera, Add(camera.new.target, move))
    /\ UNCHANGED <<transform, added, frame, time_delta, ray_hit, line_of_sight_result>>
    /\ UNCHANGED orbitVars

\* TargetMovement without collapse_approx_zero
TargetMovementUncollapsed(cam) ==
    Sub(cam.new.target, cam.current.target)

TargetMovement(cam) ==
    CollapseApproxZero(Sub(cam.new.target, cam.current.target))

FollowTargetOf(cam) ==
    LET target_movement == TargetMovement(cam)
        translation == Add(cam.current.eye.translation, target_movement)
        new_target == cam.new.target
        moved == [cam EXCEPT !.new.eye.translation = translation]
    IN  IF ~IsApproxZero(Sub(new_target, translation))
        THEN [moved EXCEPT !.new.eye.rotation = LookAt(translation, new_target, cam.up)]
        ELSE moved

FollowTarget ==
    /\ RunSystem("follow_target")
    /\ camera' = FollowTargetOf(camera)
    /\ UNCHANGED <<transform, added, frame, time_delta, ray_hit, line_of_sight_result>>
    /\ UNCHANGED orbitVars

\* vector * mouse_sensitivity
ScaleSensitivity(v) == <<v[1] \div MOUSE_SENSITIVITY_INV, v[2] \div MOUSE_SENSITIVITY_INV>>

\* clamp_pitch, from the forward-to-up angle of camera.new.eye and the
\* requested pitch.  NaN (a forward read from a NaN rotation) fails both
\* comparisons.
NaN == -1
ClampPitch(angle_to_axis, angle) ==
    LET above == angle_to_axis # NaN /\ angle_to_axis > PI \div 2
        acute_angle_to_axis == IF above THEN PI - angle_to_axis ELSE angle_to_axis
        most_acute_allowed == IF above THEN TAU \div 10 ELSE TAU \div 7
        sign == IF above THEN -1 ELSE 1
        new_angle ==
            IF angle_to_axis # NaN /\ acute_angle_to_axis < most_acute_allowed
            THEN angle - sign * (most_acute_allowed - acute_angle_to_axis)
            ELSE angle
    IN  \* 0.01 rad is 2.228 angle units
        IF Abs(new_angle) * 1000 < 2228 THEN 0 ELSE new_angle

HandleCameraControlsOf(cam, movement) ==
    IF movement = None
    THEN cam
    ELSE LET camera_movement == ScaleSensitivity(movement[1])
         IN  IF IsApproxZero2(camera_movement)
             THEN cam
             ELSE LET yaw == -Clamp(camera_movement[1], -PI, PI)
                      pitch == ClampPitch(
                                   AngleBetween(Forward(cam.new.eye.rotation), cam.up),
                                   -camera_movement[2])
                      pivot == cam.new.target
                  IN  [cam EXCEPT !.new.eye = RotateAround(cam.new.eye, pivot, yaw, pitch)]

HandleCameraControls ==
    /\ RunSystem("handle_camera_controls")
    /\ \E movement \in CameraMovements :
            camera' = HandleCameraControlsOf(camera, movement)
    /\ UNCHANGED <<transform, added, frame, time_delta, ray_hit, line_of_sight_result>>
    /\ UNCHANGED orbitVars

\* GetRaycastDistance with the clearance taken off the fallback as well
GetRaycastDistanceClearFallback(hit, max_distance) ==
    (IF hit = None THEN max_distance ELSE hit[1]) - MIN_DISTANCE_TO_OBJECTS

\* GetRaycastDistance without the clearance
GetRaycastDistanceNoClearance(hit, max_distance) ==
    IF hit = None THEN max_distance ELSE hit[1]

GetRaycastDistance(hit, max_distance) ==
    IF hit = None THEN max_distance ELSE hit[1] - MIN_DISTANCE_TO_OBJECTS

KeepLineOfSight(cam, hit) ==
    LET origin == cam.new.target
        desired_direction == Sub(cam.new.eye.translation, cam.new.target)
        normalized == TryNormalize(desired_direction)
        norm_direction == IF normalized = None THEN Z ELSE normalized[1]
        distance == GetRaycastDistance(hit, MAX_DISTANCE)
    IN  [location |-> Add(origin, Mul(norm_direction, distance)),
         correction |-> IF distance * distance < LengthSquared(desired_direction)
                        THEN "Closer" ELSE "Further"]

\* (smoothing * dt).max(1.), in thousandths
SmoothingScale(smoothing, dt) == Max(smoothing * dt, 1000)

\* Commit of the eye alone
CommitEyeOnly(cam) == [cam EXCEPT !.current.eye = cam.new.eye]

\* camera.current = camera.new.clone()
Commit(cam) == [cam EXCEPT !.current = cam.new]

UpdateCameraTransform ==
    /\ RunSystem("update_camera_transform")
    /\ \E dt \in DeltaSeconds, hit \in RayHits :
         LET result == KeepLineOfSight(camera, hit)
             translation_smoothing == IF result.correction = "Closer" THEN 25 ELSE 10
             direction == Sub(result.location, transform.translation)
             rotation_smoothing == 15
         IN  /\ time_delta' = dt
             /\ ray_hit' = hit
             /\ line_of_sight_result' = result
             /\ transform' =
                  [translation |->
                      Add(transform.translation,
                          MulFixed(direction, SmoothingScale(translation_smoothing, dt), 1000)),
                   rotation |->
                      Slerp(transform.rotation, camera.new.eye.rotation,
                            SmoothingScale(rotation_smoothing, dt))]
             /\ camera' = Commit(camera)
    /\ UNCHANGED <<added, frame>>
    /\ UNCHANGED orbitVars

\* the next run of the schedule
NextFrame ==
    /\ done = CameraSystems
    /\ frame + 1 < MaxFrames
    /\ frame' = frame + 1
    /\ done' = {}
    /\ UNCHANGED <<camera, transform, added, time_delta, ray_hit, line_of_sight_result>>
    /\ UNCHANGED orbitVars

InitCommon ==
    /\ added = TRUE
    /\ done = {}
    /\ frame = 0
    /\ camera = DefaultMainCamera
    /\ time_delta = 0
    /\ ray_hit = None
    /\ line_of_sight_result = [location |-> ZERO, correction |-> "Further"]
    /\ orbit = [current |-> PI \div 2, new |-> PI \div 2]
    /\ cursor = [grab_mode |-> "None", visible |-> TRUE]
    /\ frozen = FALSE
    /\ key_escape = FALSE

Init ==
    /\ InitCommon
    /\ \E translation \in SpawnTranslations :
            transform = [translation |-> translation, rotation |-> 0]

Next ==
    \/ InitCameraEye
    \/ SetCameraFocus
    \/ FollowTarget
    \/ HandleCameraControls
    \/ UpdateCameraTransform
    \/ NextFrame

Spec == Init /\ [][Next]_vars

---------------------------------------------------------------------------
(* The systems, on orientation.  orbit.current and orbit.new hold the      *)
(* angle between the up axis and the direction from the eye to the target, *)
(* which look_at makes the eye's forward direction.                        *)

\* the angle at which the spawned camera sees the origin: the two limits of
\* the allowed range and the horizontal
SpawnPitches == {TAU \div 7, PI \div 2, PI - TAU \div 10}
\* actions.camera_movement: absent, no movement, or a mouse movement
OrbitMovements ==
    {None, Some(<<0, 0>>)} \cup
    {Some(<<x, y>>) : x \in {0, 5000}, y \in {-20000, -3000, -200, 200, 3000, 20000}}

\* look_at on a forward direction parallel to up normalizes a zero cross
\* product: the rotation is NaN from then on
LookAtPitch(angle_to_axis) ==
    IF angle_to_axis \in {NaN, 0, PI} THEN NaN ELSE angle_to_axis

\* rotating by `pitch` about local_x turns forward towards up by that angle;
\* the angle to the axis folds at the two poles
PitchBy(angle_to_axis, pitch) ==
    IF angle_to_axis = NaN
    THEN NaN
    ELSE LET turned == (angle_to_axis - pitch) % TAU
         IN  IF turned > PI THEN TAU - turned ELSE turned

InitCameraEyeOrbit ==
    /\ RunSystem("init_camera_eye")
    /\ \E pitch \in SpawnPitches :
            orbit' = IF added THEN [orbit EXCEPT !.current = pitch] ELSE orbit
    /\ added' = FALSE
    /\ UNCHANGED <<cursor, frozen, key_escape>>
    /\ UNCHANGED posVars

\* moving the target leaves the direction of a rigidly following eye alone
SetCameraFocusOrbit ==
    /\ RunSystem("set_camera_focus")
    /\ UNCHANGED <<orbit, added, cursor, frozen, key_escape>>
    /\ UNCHANGED posVars

FollowTargetOrbit ==
    /\ RunSystem("follow_target")
    /\ orbit' = [orbit EXCEPT !.new = LookAtPitch(orbit.current)]
    /\ UNCHANGED <<added, cursor, frozen, key_escape>>
    /\ UNCHANGED posVars

HandleCameraControlsPitch(angle_to_axis, movement) ==
    IF movement = None
    THEN angle_to_axis
    ELSE LET camera_movement == ScaleSensitivity(movement[1])
         IN  IF IsApproxZero2(camera_movement)
             THEN angle_to_axis
             ELSE PitchBy(angle_to_axis, ClampPitch(angle_to_axis, -camera_movement[2]))

HandleCameraControlsOrbit ==
    /\ RunSystem("handle_camera_controls")
    /\ \E movement \in OrbitMovements :
            orbit' = [orbit EXCEPT !.new = HandleCameraControlsPitch(orbit.new, movement)]
    /\ UNCHANGED <<added, cursor, frozen, key_escape>>
    /\ UNCHANGED posVars

UpdateCameraTransformOrbit ==
    /\ RunSystem("update_camera_transform")
    /\ orbit' = [orbit EXCEPT !.current = orbit.new]
    /\ UNCHANGED <<added, cursor, frozen, key_escape>>
    /\ UNCHANGED posVars

\* CursorGrabOf without the early return of the frozen branch
CursorGrabOfFallThrough(window, is_frozen, just_pressed) ==
    LET freed == IF is_frozen THEN [grab_mode |-> "None", visible |-> TRUE] ELSE window
    IN  IF just_pressed
        THEN IF freed.grab_mode = "None"
             THEN [grab_mode |-> "Locked", visible |-> FALSE]
             ELSE [grab_mode |-> "None", visible |-> TRUE]
        ELSE freed

\* cursor_grab_system on the window's cursor
CursorGrabOf(window, is_frozen, just_pressed) ==
    IF is_frozen
    THEN [grab_mode |-> "None", visible |-> TRUE]
    ELSE IF just_pressed
         THEN IF window.grab_mode = "None"
              THEN [grab_mode |-> "Locked", visible |-> FALSE]
              ELSE [grab_mode |-> "None", visible |-> TRUE]
         ELSE window

CursorGrabSystem ==
    /\ RunSystem("cursor_grab_system")
    /\ \E is_frozen \in BOOLEAN, just_pressed \in BOOLEAN :
         /\ frozen' = is_frozen
         /\ key_escape' = just_pressed
         /\ cursor' = CursorGrabOf(cursor, is_frozen, just_pressed)
    /\ UNCHANGED <<orbit, added>>
    /\ UNCHANGED posVars

NextFrameOrbit ==
    /\ done = Systems
    /\ done' = {}
    /\ UNCHANGED <<added, orbit, cursor, frozen, key_escape>>
    /\ UNCHANGED posVars

InitOrbit ==
    /\ InitCommon
    /\ transform = DefaultTransform

NextOrbit ==
    \/ InitCameraEyeOrbit
    \/ SetCameraFocusOrbit
    \/ FollowTargetOrbit
    \/ HandleCameraControlsOrbit
    \/ UpdateCameraTransformOrbit
    \/ CursorGrabSystem
    \/ NextFrameOrbit

SpecOrbit == InitOrbit /\ [][NextOrbit]_vars

---------------------------------------------------------------------------
(* Properties. *)

\* the step in which a system runs
FollowStep == "follow_target" \notin done /\ "follow_target" \in done'
UpdateStep == "update_camera_transform" \notin done /\ "update_camera_transform" \in done'
CursorStep == "cursor_grab_system" \notin done /\ "cursor_grab_system" \in done'
Updated == "update_camera_transform" \in done

\* the pending view offset, and the resolved location seen from the target
Desired == Sub(camera.new.eye.translation, camera.new.target)
Resolved == Sub(line_of_sight_result.location, camera.new.target)
\* the resolved location lies at signed distance d from the target along the
\* direction from the target to the pending eye (+Z when the two coincide)
ResolvedAlongView(d) ==
    IF Desired = ZERO
    THEN Resolved = Mul(Z, d)
    ELSE /\ LengthSquared(Resolved) = d * d
         /\ Cross(Resolved, Desired) = ZERO
         /\ Sign(Dot(Resolved, Desired)) * Sign(d) >= 0

Free == [grab_mode |-> "None", visible |-> TRUE]
Captured == [grab_mode |-> "Locked", visible |-> FALSE]

\* C1: update_camera_transform moves the rendered position by
\* (resolved location - rendered position) * min(rate * dt, 1), rate 25 when
\* the correction is Closer and 10 otherwise, so never past the resolved
\* location.
C1_BlendFactorAtMostOne ==
    [][UpdateStep =>
        LET rate == IF line_of_sight_result'.correction = "Closer" THEN 25 ELSE 10
        IN  Mul(Sub(transform'.translation, transform.translation), 1000)
              = Mul(Sub(line_of_sight_result'.location, transform.translation),
                    Min(rate * time_delta', 1000))]_vars

\* C2: after handle_camera_controls the pending eye's forward direction is
\* never closer to the up axis than TAU/10 where the forward-to-up angle
\* exceeds a quarter turn, nor closer than TAU/7 on the other side.
C2_PitchWithinLimits ==
    ("handle_camera_controls" \in done /\ orbit.new # NaN) =>
        IF orbit.new > PI \div 2
        THEN PI - orbit.new >= TAU \div 10
        ELSE orbit.new >= TAU \div 7

\* C3: in every frame follow_target completes before handle_camera_controls,
\* which completes before update_camera_transform, and the line of sight the
\* update resolved is the one of the frame's final pending pose.
C3_StagesInSequence ==
    /\ "handle_camera_controls" \in done => "follow_target" \in done
    /\ Updated => "handle_camera_controls" \in done
    /\ Updated => line_of_sight_result = KeepLineOfSight(camera, ray_hit)
C3_Witness ==
    /\ done = CameraSystems
    /\ frame = 1
    /\ line_of_sight_result.correction = "Closer"
    /\ camera.new.eye.rotation = 700

\* C4: from the end of update_camera_transform until the target is next
\* moved, current equals new (eye and target), so the next frame's target
\* delta is measured from this frame's pending target.
C4_CurrentIsPending ==
    (Updated \/ (frame > 0 /\ "set_camera_focus" \notin done)) =>
        camera.current = camera.new
C4_Witness ==
    /\ Updated
    /\ frame = 1
    /\ camera.new.target = <<2000, 0, 0>>
    /\ camera.current.target = <<2000, 0, 0>>

\* C5 as stated: for every pending pose, when the ray reports no hit the
\* resolved location is exactly MAX_DISTANCE from the target along the view
\* direction and the correction is Further.
C5_NoHitIsFurther ==
    (Updated /\ ray_hit = None) =>
        (ResolvedAlongView(MAX_DISTANCE) /\ line_of_sight_result.correction = "Further")
\* C5 amended: the same, for a pending eye that is at most MAX_DISTANCE from
\* the target; a farther eye is pulled in and classified Closer.
C5_NoHitWithinMaxIsFurther ==
    (Updated /\ ray_hit = None) =>
        /\ ResolvedAlongView(MAX_DISTANCE)
        /\ line_of_sight_result.correction =
              IF LengthSquared(Desired) <= MAX_DISTANCE * MAX_DISTANCE
              THEN "Further" ELSE "Closer"
C5_Witness ==
    /\ Updated
    /\ ray_hit = None
    /\ LengthSquared(Desired) = MAX_DISTANCE * MAX_DISTANCE
    /\ line_of_sight_result.correction = "Further"
    /\ line_of_sight_result.location = camera.new.eye.translation

\* C6 as stated: for every hit distance h with 0 <= h <= 5.0 below the
\* desired distance, the resolved location is at distance exactly h - 0.01
\* along the view direction and the correction is Closer.
C6_HitIsCloser ==
    (Updated /\ ray_hit # None) =>
        LET h == ray_hit[1]
        IN  (0 <= h /\ h <= MAX_DISTANCE /\ h * h < LengthSquared(Desired)) =>
                /\ ResolvedAlongView(h - MIN_DISTANCE_TO_OBJECTS)
                /\ line_of_sight_result.correction = "Closer"
\* C6 amended: the location is as stated; the correction is Closer when the
\* hit is at least the clearance 0.01 away or the desired distance exceeds
\* the clearance.
C6_HitBeyondClearanceIsCloser ==
    (Updated /\ ray_hit # None) =>
        LET h == ray_hit[1]
        IN  (0 <= h /\ h <= MAX_DISTANCE /\ h * h < LengthSquared(Desired)) =>
                /\ ResolvedAlongView(h - MIN_DISTANCE_TO_OBJECTS)
                /\ (h >= MIN_DISTANCE_TO_OBJECTS
                      \/ LengthSquared(Desired) > MIN_DISTANCE_TO_OBJECTS * MIN_DISTANCE_TO_OBJECTS)
                   => line_of_sight_result.correction = "Closer"
C6_Witness ==
    /\ Updated
    /\ ray_hit = Some(2000)
    /\ LengthSquared(Desired) = MAX_DISTANCE * MAX_DISTANCE
    /\ LengthSquared(Resolved) = 1990 * 1990
    /\ line_of_sight_result.correction = "Closer"

\* C7: with the desired distance 5.0 and the rendered camera held at 1.99
\* from the target on the view ray, a frame without a hit is classified
\* Further and moves the rendered position towards 5.0 from the target
\* without exceeding it, for every frame time.
C7_RecoveryStaysWithinMax ==
    [][(/\ UpdateStep
        /\ ray_hit' = None
        /\ LengthSquared(Desired) = MAX_DISTANCE * MAX_DISTANCE
        /\ Sub(transform.translation, camera.new.target)
              = MulFixed(Desired, 1990, MAX_DISTANCE))
       => /\ line_of_sight_result'.correction = "Further"
          /\ LengthSquared(Sub(transform'.translation, camera.new.target))
                <= MAX_DISTANCE * MAX_DISTANCE
          /\ LengthSquared(Sub(transform'.translation, camera.new.target))
                >= 1990 * 1990]_vars

\* C8: a run of cursor_grab_system with ActionsFrozen present leaves the
\* cursor free and visible; without it an Escape press toggles between free
\* and visible and locked and hidden, and no press changes nothing.
C8_CursorGate ==
    /\ [](cursor \in {Free, Captured})
    /\ [][CursorStep =>
            /\ frozen' => cursor' = Free
            /\ (~frozen' /\ key_escape') =>
                    cursor' = IF cursor = Free THEN Captured ELSE Free
            /\ (~frozen' /\ ~key_escape') => cursor' = cursor]_vars
C8_Witness ==
    /\ "cursor_grab_system" \in done
    /\ cursor = Captured
    /\ ~frozen
    /\ key_escape

\* C9 as stated: in every frame, the first included, follow_target shifts
\* new.eye.translation by the target delta when that is at or above the
\* jitter epsilon and by zero when it is below.
C9_EyeShiftsByDelta ==
    [][FollowStep =>
        LET delta == Sub(camera.new.target, camera.current.target)
            shift == Sub(camera'.new.eye.translation, camera.new.eye.translation)
        IN  shift = IF LengthSquared(delta) < EPSILON_SQUARED THEN ZERO ELSE delta]_vars
\* C9 amended: the same in every frame after the camera's first, in which
\* new.eye starts at the default pose and is set from the spawn transform.
C9_EyeShiftsByDeltaAfterFirstFrame ==
    [][(FollowStep /\ frame > 0) =>
        LET delta == Sub(camera.new.target, camera.current.target)
            shift == Sub(camera'.new.eye.translation, camera.new.eye.translation)
        IN  shift = IF LengthSquared(delta) < EPSILON_SQUARED THEN ZERO ELSE delta]_vars
C9_Witness ==
    /\ frame = 1
    /\ "follow_target" \in done
    /\ "handle_camera_controls" \notin done
    /\ Sub(camera.new.target, camera.current.target) = <<1000, 0, 0>>
    /\ Sub(camera.new.eye.translation, camera.current.eye.translation) = <<1000, 0, 0>>
    /\ camera.current.eye.translation # ZERO

\* C10: the offset from the target to the pending eye after follow_target is
\* the offset committed by the frame before, whatever the target's movement.
C10_RigidFollow ==
    [][(FollowStep /\ frame > 0) =>
        Sub(camera'.new.eye.translation, camera'.new.target)
          = Sub(camera.current.eye.translation, camera.current.target)]_vars

====
